---- MODULE Spec2Model ----
(***************************************************************************)
(* Model of the interactive chat loop (chatMode) and of the request        *)
(* dispatcher (queryGemini) of the two CLI variants of the repository:     *)
(*   "askit"    - src/ui.js, lines 94-336 (dispatcher with model fallback) *)
(*   "termigpt" - src/ui.jsx              (dispatcher without fallback)    *)
(* Strings are TLA+ strings; toLowerCase, includes and trim are computed   *)
(* character by character.                                                 *)
(***************************************************************************)
EXTENDS Integers, Sequences, FiniteSets, TLC

VARIABLES variant, model, style, long, maxLines, context, proc, exitCode, hs,
          requests, console, logFile,
          mode, env, configFile, personasFile, apiKey, runs, ui

\* the command-line options of a CLI process
options == <<variant, model, style, long, maxLines>>

\* what a CLI process starts from and what getAPIKey resolves
startVars == <<mode, env, configFile, personasFile, apiKey, runs>>

vars == <<options, context, proc, exitCode, hs, requests, console, logFile, startVars, ui>>

(***************************************************************************)
(* Bounds                                                                  *)
(***************************************************************************)
\* number of input lines the readline interface delivers in one session
MaxLines == 2

\* number of input lines when the dispatcher is examined on its own
DispatchLines == 1

\* number of successive processes sharing one home directory
MaxRuns == 2

\* number of messages the user submits in the full-screen front-end
MaxSubmits == 2

\* number of milliseconds Date.now() can advance during a session
MaxClock == 2

(***************************************************************************)
(* String functions of the JavaScript runtime                              *)
(***************************************************************************)
Chr(s, i) == SubSeq(s, i, i)

UpperChars == "ABCDEFGHIJKLMNOPQRSTUVWXYZ"
LowerChars == "abcdefghijklmnopqrstuvwxyz"

LowerChar(c) ==
    IF \E k \in 1..Len(UpperChars) : Chr(UpperChars, k) = c
    THEN Chr(LowerChars, CHOOSE k \in 1..Len(UpperChars) : Chr(UpperChars, k) = c)
    ELSE c

RECURSIVE toLowerCase(_)
toLowerCase(s) ==
    IF Len(s) = 0 THEN ""
    ELSE LowerChar(Chr(s, 1)) \o toLowerCase(SubSeq(s, 2, Len(s)))

OccursAt(s, sub, p) ==
    /\ p >= 1
    /\ p + Len(sub) - 1 <= Len(s)
    /\ SubSeq(s, p, p + Len(sub) - 1) = sub

includes(s, sub) == \E p \in 1..(Len(s) + 1) : OccursAt(s, sub, p)

IsSpace(c) == c \in {" ", "\t", "\n", "\r"}

RECURSIVE trimStart(_)
trimStart(s) ==
    IF Len(s) > 0 /\ IsSpace(Chr(s, 1)) THEN trimStart(SubSeq(s, 2, Len(s))) ELSE s

RECURSIVE trimEnd(_)
trimEnd(s) ==
    IF Len(s) > 0 /\ IsSpace(Chr(s, Len(s))) THEN trimEnd(SubSeq(s, 1, Len(s) - 1)) ELSE s

trim(s) == trimEnd(trimStart(s))

(***************************************************************************)
(* Configuration constants                                                 *)
(***************************************************************************)
STABLE_FALLBACK_MODEL == "gemini-2.5-flash"
NEWER_PRO_MODEL == "gemini-2.5-pro"

DEFAULT_PERSONALITIES ==
    [default      |-> "You are a helpful, concise assistant. Prefer short, actionable answers with examples when relevant.",
     sarcastic    |-> "You're a witty, sarcastic assistant. Roast gently but always provide correct, practical help.",
     motivational |-> "You're a high-energy coach. Be supportive, positive, and give step-by-step guidance.",
     hacker       |-> "You're a cool, terse, command-line-loving hacker mentor. Prefer shell snippets and minimal prose.",
     teacher      |-> "You're a patient teacher. Explain concepts like to a beginner, with analogies and checks for understanding."]

RULES_TEXT == "\nAdditional rules:\n- Use bullet points when helpful.\n- Provide runnable examples when code is requested.\n- Keep answers short unless --long is used."

LONG_SUFFIX == "\nBe detailed and thorough."

\* properties every object literal inherits from Object.prototype, with the
\* text a template literal makes of them
ObjectPrototype ==
    [constructor |-> "function Object() { [native code] }",
     toString    |-> "function toString() { [native code] }"]

\* obj[key]: an own property, else an inherited one, else undefined
GetProperty(obj, key) ==
    IF key \in DOMAIN obj THEN [defined |-> TRUE, val |-> obj[key]]
    ELSE IF key \in DOMAIN ObjectPrototype THEN [defined |-> TRUE, val |-> ObjectPrototype[key]]
    ELSE [defined |-> FALSE, val |-> ""]

\* personalities[style] || personalities["default"]
personaOf(st, personalities) ==
    LET found == GetProperty(personalities, st)
    IN IF found.defined /\ found.val # "" THEN found.val ELSE personalities["default"]

buildSystemPrompt(st, personalities) == personaOf(st, personalities) \o RULES_TEXT

\* a file of the home directory: absent, or present with its text
NoFile == [exists |-> FALSE, data |-> ""]
File(d) == [exists |-> TRUE, data |-> d]

\* texts of ~/.askit_personalities.json
PERSONAS_MALFORMED == "{\"hacker\": "
PERSONAS_PIRATE    == "{\"pirate\":\"You are a pirate.\"}"
PERSONAS_HACKER    == "{\"hacker\":\"You are a friendly hacker.\"}"
PERSONAS_DEFAULT   == "{\"default\":\"Answer in French.\"}"
PERSONAS_BLANK     == "{\"hacker\":\"\"}"

(***************************************************************************)
(* Remote API: the responses the server can give                           *)
(***************************************************************************)
BODY_HI        == "{\"candidates\":[{\"content\":{\"parts\":[{\"text\":\"Hi there\"}]}}]}"
BODY_NO_TEXT   == "{\"candidates\":[]}"
BODY_MALFORMED == "<html>oops"
\* well-formed success bodies in which one link of the path to the text is missing
BODY_BLOCKED     == "{\"promptFeedback\":{\"blockReason\":\"SAFETY\"}}"
BODY_NO_CONTENT  == "{\"candidates\":[{\"finishReason\":\"SAFETY\"}]}"
BODY_NO_PARTS    == "{\"candidates\":[{\"content\":{\"role\":\"model\"}}]}"
BODY_EMPTY_PARTS == "{\"candidates\":[{\"content\":{\"parts\":[]}}]}"
BODY_PART_NO_TEXT == "{\"candidates\":[{\"content\":{\"parts\":[{\"functionCall\":\"ls\"}]}}]}"
BODY_NOT_FOUND == "{\"error\":\"model not found\"}"
BODY_DOWN      == "upstream down"

REPLY_HI == "Hi there"

Responses ==
    { [status |-> 200, statusText |-> "OK",                    body |-> BODY_HI],
      [status |-> 200, statusText |-> "OK",                    body |-> BODY_NO_TEXT],
      [status |-> 200, statusText |-> "OK",                    body |-> BODY_MALFORMED],
      [status |-> 200, statusText |-> "OK",                    body |-> BODY_BLOCKED],
      [status |-> 200, statusText |-> "OK",                    body |-> BODY_NO_CONTENT],
      [status |-> 200, statusText |-> "OK",                    body |-> BODY_NO_PARTS],
      [status |-> 200, statusText |-> "OK",                    body |-> BODY_EMPTY_PARTS],
      [status |-> 200, statusText |-> "OK",                    body |-> BODY_PART_NO_TEXT],
      [status |-> 404, statusText |-> "Not Found",             body |-> BODY_NOT_FOUND],
      [status |-> 500, statusText |-> "Internal Server Error", body |-> BODY_DOWN] }

\* res.ok of the fetch API: status in the range 200-299
ResOk(resp) == resp.status >= 200 /\ resp.status <= 299

\* JSON.parse on the bodies above: the parsed value, or a thrown SyntaxError
JSONparse(body) ==
    CASE body = BODY_HI ->
           [threw |-> FALSE,
            data  |-> [candidates |-> << [content |-> [parts |-> << [text |-> REPLY_HI] >>]] >>]]
      [] body = BODY_NO_TEXT ->
           [threw |-> FALSE, data |-> [candidates |-> << >>]]
      [] body = BODY_NOT_FOUND ->
           [threw |-> FALSE, data |-> [error |-> "model not found"]]
      [] body = BODY_BLOCKED ->
           [threw |-> FALSE, data |-> [promptFeedback |-> [blockReason |-> "SAFETY"]]]
      [] body = BODY_NO_CONTENT ->
           [threw |-> FALSE, data |-> [candidates |-> << [finishReason |-> "SAFETY"] >>]]
      [] body = BODY_NO_PARTS ->
           [threw |-> FALSE, data |-> [candidates |-> << [content |-> [role |-> "model"]] >>]]
      [] body = BODY_EMPTY_PARTS ->
           [threw |-> FALSE, data |-> [candidates |-> << [content |-> [parts |-> << >>]] >>]]
      [] body = BODY_PART_NO_TEXT ->
           [threw |-> FALSE,
            data  |-> [candidates |-> << [content |-> [parts |-> << [functionCall |-> "ls"] >>]] >>]]
      [] body = PERSONAS_PIRATE ->
           [threw |-> FALSE, data |-> [pirate |-> "You are a pirate."]]
      [] body = PERSONAS_HACKER ->
           [threw |-> FALSE, data |-> [hacker |-> "You are a friendly hacker."]]
      [] body = PERSONAS_DEFAULT ->
           [threw |-> FALSE, data |-> [default |-> "Answer in French."]]
      [] body = PERSONAS_BLANK ->
           [threw |-> FALSE, data |-> [hacker |-> ""]]
      [] OTHER ->
           [threw |-> TRUE, data |-> << >>]

\* { ...defaults, ...extra }
Spread(defaults, extra) ==
    [k \in (DOMAIN defaults) \cup (DOMAIN extra) |->
        IF k \in DOMAIN extra THEN extra[k] ELSE defaults[k]]

\* the object read from the personas file: {} when the file is absent or
\* JSON.parse throws
extraPersonalities(file) ==
    IF file.exists /\ ~JSONparse(file.data).threw THEN JSONparse(file.data).data ELSE << >>

\* personalities of the session
loadPersonalities == Spread(DEFAULT_PERSONALITIES, extraPersonalities(personasFile))

\* data?.candidates?.[0]?.content?.parts?.[0]?.text; defined = FALSE is undefined
Undefined == [defined |-> FALSE, val |-> ""]
OptionalText(data) ==
    IF "candidates" \notin DOMAIN data THEN Undefined
    ELSE IF Len(data.candidates) = 0 THEN Undefined
    ELSE IF "content" \notin DOMAIN data.candidates[1] THEN Undefined
    ELSE IF "parts" \notin DOMAIN data.candidates[1].content THEN Undefined
    ELSE IF Len(data.candidates[1].content.parts) = 0 THEN Undefined
    ELSE IF "text" \notin DOMAIN data.candidates[1].content.parts[1] THEN Undefined
    ELSE [defined |-> TRUE, val |-> data.candidates[1].content.parts[1].text]

Placeholder(v) ==
    IF v = "askit"
    THEN "(No text response from Gemini. The API may have returned a blocked or empty response.)"
    ELSE "(no response)"

\* (variation: the text is returned as found, without "|| placeholder")
TextAsFound(v, t) == t.val

\* text || placeholder
TextOrPlaceholder(v, t) == IF t.defined /\ t.val # "" THEN t.val ELSE Placeholder(v)

\* message of the Error thrown for a non-success status
RemoteErrorMessage(resp) ==
    "Gemini API error: " \o ToString(resp.status) \o " " \o resp.statusText \o "\n" \o resp.body

\* message of what is thrown when JSON.parse fails: in ui.js the catch block
\* evaluates `new new Error(...)`, which throws a TypeError; in ui.jsx the
\* SyntaxError of JSON.parse propagates
ParseFailureMessage(v) ==
    IF v = "askit"
    THEN "(intermediate value) is not a constructor"
    ELSE "Unexpected token < in JSON at position 0"

NETWORK_FAILURE_MESSAGE == "request to https://generativelanguage.googleapis.com failed, reason: ECONNRESET"

(***************************************************************************)
(* queryGemini: model-name correction and the 404 fallback                 *)
(***************************************************************************)
\* (variation: the name is compared as given, not lower-cased)
currentModelCaseSensitive(v, m) ==
    IF /\ v = "askit"
       /\ m # STABLE_FALLBACK_MODEL
       /\ includes(m, "pro")
       /\ ~includes(m, "2.5")
    THEN NEWER_PRO_MODEL
    ELSE m

\* the model name of the first request of queryGemini(m, ...)
currentModel(v, m) ==
    IF /\ v = "askit"
       /\ toLowerCase(m) # STABLE_FALLBACK_MODEL
       /\ includes(toLowerCase(m), "pro")
       /\ ~includes(toLowerCase(m), "2.5")
    THEN NEWER_PRO_MODEL
    ELSE m

\* (variation: the fallback is never taken)
shouldFallbackNever(v, status, cur) == FALSE

\* (variation: a 404 falls back whatever the model of the request was)
shouldFallbackOnEvery404(v, status, cur) == v = "askit" /\ status = 404

\* (variation: every error status falls back, not only 404)
shouldFallbackOnAnyError(v, status, cur) ==
    v = "askit" /\ status >= 400 /\ cur # STABLE_FALLBACK_MODEL

\* the recursive call queryGemini(STABLE_FALLBACK_MODEL, ...) is made
shouldFallback(v, status, cur) ==
    /\ v = "askit"
    /\ status = 404
    /\ cur # STABLE_FALLBACK_MODEL

(***************************************************************************)
(* Inputs                                                                  *)
(***************************************************************************)
Variants == {"askit", "termigpt"}

\* values of --model in a chat session
ChatModels == {"gemini-2.5-flash", "gemini-pro"}

\* values of --model for the dispatcher on its own
ModelNames ==
    {"gemini-2.5-flash", "Gemini-2.5-Flash", "gemini-2.0-flash", "gemini-pro",
     "Gemini-PRO", "gemini-1.5-pro", "gemini-2.5-pro", "gemini-2.5-pro-exp", "prototype"}

\* values of --style
ChatStyles == {"hacker"}

\* lines the user can enter
Lines == {"  ", ":exit", " :clear", "hello "}

\* what the server answers in a chat session, and to the dispatcher on its own
ChatResponses ==
    {r \in Responses : r.body \in {BODY_HI, BODY_MALFORMED, BODY_NOT_FOUND, BODY_DOWN}}

(***************************************************************************)
(* Recorded history                                                        *)
(*   requests - the requests sent, in order                                *)
(*   console  - stdout and stderr writes and rl.prompt() calls, in order   *)
(*   logFile  - the lines appended to the day's log file, in order         *)
(***************************************************************************)
Req(turn, mdl, prompt) == [turn |-> turn, mdl |-> mdl, prompt |-> prompt]

Out(kind, turn, text) == [kind |-> kind, turn |-> turn, text |-> text]

\* one invocation of the line handler: the trimmed line, where it stands
\* ("returned", "await", "answered", "failed"), its prompt, the model of its
\* outstanding request, the requests it has sent, the responses it has received
\* and what queryGemini returned or threw
\* (after: the turns whose handlers had finished when this line arrived)
Handler(text, pc, prompt, cur, nreq, after) ==
    [text |-> text, pc |-> pc, prompt |-> prompt, cur |-> cur, nreq |-> nreq,
     received |-> << >>, result |-> "", after |-> after]

\* logLine(text): one appended line of the day's log file (timestamp left out)
logLine(turn, text) == [turn |-> turn, text |-> text]

\* rl.prompt()
rlPrompt(turn) == Out("prompt", turn, "")

\* (variation: :clear rebuilds the context for the default persona)
clearedContextDefault(st, personalities) == buildSystemPrompt("default", personalities)

\* the context a :clear leaves behind
clearedContext(st, personalities) == buildSystemPrompt(st, personalities)

\* the prompt of one chat turn
fullPrompt(ctx, text, lng) ==
    ctx \o "\nUser: " \o text \o (IF lng THEN LONG_SUFFIX ELSE "")

\* (variation: the exchange is appended to the context)
contextAfterAnswerAppended(ctx, text, answer) ==
    ctx \o "\nUser: " \o text \o "\nAssistant: " \o answer

\* the context after an answer has been printed and logged: the handler never
\* assigns it
contextAfterAnswer(ctx, text, answer) == ctx

(***************************************************************************)
(* getAPIKey: the sources of the key                                       *)
(***************************************************************************)
\* values of GEMINI_API_KEY in the environment ("" also stands for unset)
ENV_KEY == " env-key "
Envs == {"", "  ", ENV_KEY}

\* states of ~/.askit_config when a process starts
FILE_KEY == "file-key\n"
ConfigFiles == {NoFile, File(" \n"), File(FILE_KEY)}

\* what the user types at "Enter your Gemini API key: "
Entries == {"", "  ", " typed-key "}

\* the question words of a single-shot run, joined
Questions == {"what is ls"}

Key(source, key) == [source |-> source, key |-> key]

\* one call of getAPIKey: what it found, where the key came from ("env",
\* "file", "prompt", or "none" when it threw), what was typed, whether the key
\* was written to the config file
KeyRun(e, file, source, key, entered, saved) ==
    [env |-> e, file |-> file, source |-> source, key |-> key, entered |-> entered,
     saved |-> saved]

\* (variation: the environment variable is not consulted)
envUsableNever(e) == FALSE

\* process.env.GEMINI_API_KEY && process.env.GEMINI_API_KEY.trim() !== ""
envUsable(e) == e # "" /\ trim(e) # ""

\* fs.existsSync(CONFIG_PATH) and readFileSync(...).trim() is not empty
fileUsable(file) == file.exists /\ trim(file.data) # ""

\* promptHidden: the answer, trimmed
promptHidden(answer) == trim(answer)

\* (variation: an empty entry is accepted as the key)
enteredMissingNever(entered) == FALSE

\* if (!entered) throw ...
enteredMissing(entered) == entered = ""

NO_KEY_MESSAGE == "No API key provided. Please set GEMINI_API_KEY in .env or enter manually."
WRITE_FAILURE_MESSAGE == "EACCES: permission denied, open '.askit_config'"

\* (variation: single-shot catches the error like a chat turn does)
propagatesNever(md) == FALSE

\* an error thrown by queryGemini leaves the mode function: singleShot has no
\* try/catch, the line handler of chatMode has one
propagates(md) == md = "single"

\* the full-screen front-end is not part of a CLI process
UIOff ==
    [state |-> "off", messages |-> << >>, loading |-> FALSE, pending |-> 0,
     captured |-> << >>, exitListener |-> FALSE, clock |-> 0, files |-> {}]

(***************************************************************************)
(* Initial state: chatMode has read the key and the personalities, created *)
(* the readline interface, built the context and shown the first prompt    *)
(***************************************************************************)
Started(models, styles, files, n) ==
    /\ variant \in Variants
    /\ model \in models
    /\ style \in styles
    /\ long \in BOOLEAN
    /\ maxLines = n
    /\ mode = "chat"
    /\ env = ENV_KEY
    /\ configFile = NoFile
    /\ personasFile \in files
    /\ apiKey = Key("env", trim(ENV_KEY))
    /\ runs = << KeyRun(ENV_KEY, NoFile, "env", trim(ENV_KEY), "", FALSE) >>
    /\ ui = UIOff
    /\ context = buildSystemPrompt(style, loadPersonalities)
    /\ proc = "running"
    /\ exitCode = -1
    /\ hs = << >>
    /\ requests = << >>
    /\ console = << rlPrompt(0) >>
    /\ logFile = << >>

\* no personas file in the home directory
InitWith(models, styles, n) == Started(models, styles, {NoFile}, n)

Init == InitWith(ChatModels, ChatStyles, MaxLines)

\* (variation: lines are still read after the interface was closed)
CanReadLineAfterClose == Len(hs) < maxLines

CanReadLine == proc = "running" /\ mode = "chat" /\ Len(hs) < maxLines

\* the turns whose handlers have run to their end
Finished == {k \in 1..Len(hs) : hs[k].pc # "await"}

(***************************************************************************)
(* rl.on("line"): the four branches of the handler                         *)
(***************************************************************************)
\* if (!text) return rl.prompt();
EmptyLine(L) ==
    /\ CanReadLine
    /\ \E line \in L :
         /\ trim(line) = ""
         /\ hs' = Append(hs, Handler(trim(line), "returned", "", "", 0, Finished))
         /\ console' = Append(console, rlPrompt(Len(hs) + 1))
    /\ UNCHANGED <<startVars, ui, options, context, proc, exitCode,
                   requests, logFile>>

\* the "close" handler: console.log("bye!"); process.exit(0)
closeOutput(turn) == << Out("stdout", turn, "bye!") >>

\* if (text === ":exit") return rl.close();
ExitLine(L) ==
    /\ CanReadLine
    /\ \E line \in L :
         /\ trim(line) = ":exit"
         /\ hs' = Append(hs, Handler(trim(line), "returned", "", "", 0, Finished))
         /\ console' = console \o closeOutput(Len(hs) + 1)
    /\ proc' = "exited"
    /\ exitCode' = 0
    /\ UNCHANGED <<startVars, ui, options, context, requests, logFile>>

\* if (text === ":clear") { context = buildSystemPrompt(...); ...; return rl.prompt(); }
ClearLine(L) ==
    /\ CanReadLine
    /\ \E line \in L :
         /\ trim(line) = ":clear"
         /\ hs' = Append(hs, Handler(trim(line), "returned", "", "", 0, Finished))
         /\ console' = console \o << Out("stdout", Len(hs) + 1, "Context cleared."),
                                     rlPrompt(Len(hs) + 1) >>
    /\ context' = clearedContext(style, loadPersonalities)
    /\ UNCHANGED <<startVars, ui, options, proc, exitCode, requests, logFile>>

\* any other line: build fullPrompt, call queryGemini, which sends its first request
UserLine(L) ==
    /\ CanReadLine
    /\ \E line \in L :
         LET text == trim(line)
             p    == fullPrompt(context, text, long)
             cur  == currentModel(variant, model)
         IN /\ text \notin {"", ":exit", ":clear"}
            /\ hs' = Append(hs, Handler(text, "await", p, cur, 1, Finished))
            /\ requests' = Append(requests, Req(Len(hs) + 1, cur, p))
    /\ UNCHANGED <<startVars, ui, options, context, proc, exitCode,
                   console, logFile>>

\* stdin ends: readline emits "close"
EndOfInput ==
    /\ proc = "running"
    /\ mode = "chat"
    /\ proc' = "exited"
    /\ exitCode' = 0
    /\ console' = console \o closeOutput(Len(hs))
    /\ UNCHANGED <<startVars, ui, options, context, hs, requests, logFile>>

(***************************************************************************)
(* The continuation of a handler when its request is answered              *)
(***************************************************************************)
Awaiting(i) == i \in 1..Len(hs) /\ hs[i].pc = "await"

\* what the handler does with a thrown error: the catch block, then rl.prompt()
caughtOutput(i, message) ==
    << Out("stderr", i, "Error: " \o message) >>
    \o (IF propagates(mode) THEN << >> ELSE << rlPrompt(i) >>)

\* what the handler prints for an answer, followed by rl.prompt() (the prefix
\* is written with ">" for the arrow character of the source)
answerOutput(i, answer) ==
    IF mode = "single"
    THEN << Out("stdout", i, answer \o "\n") >>
    ELSE << Out("stdout", i, "ai > " \o answer \o "\n"), rlPrompt(i) >>

\* (variation: only the answer is logged)
answerLogAnswerOnly(i, text, answer) == << logLine(i, "A: " \o answer) >>

\* what the handler logs for an answer
answerLog(i, text, answer) == << logLine(i, "Q: " \o text), logLine(i, "A: " \o answer) >>

\* (variation: the question is logged although the dispatch threw)
caughtLogQuestion(i, text) == << logLine(i, "Q: " \o text) >>

\* what the handler logs when the dispatch threw
caughtLog(i, text) == << >>

\* the console.log of the fallback branch; it names the model queryGemini was
\* called with (the leading warning sign is left out)
fallbackOutput(i, m) ==
    << Out("stdout", i, "Model \"" \o m \o "\" not found. Falling back to \""
                          \o STABLE_FALLBACK_MODEL \o "\"...") >>

\* the handler's catch block and the rl.prompt() after it
Caught(i, received, message) ==
    /\ hs' = [hs EXCEPT ![i].pc = "failed", ![i].received = received, ![i].result = message]
    /\ console' = console \o caughtOutput(i, message)
    /\ logFile' = logFile \o caughtLog(i, hs[i].text)
    /\ proc' = IF propagates(mode) THEN "exited" ELSE proc
    /\ exitCode' = IF propagates(mode) THEN 1 ELSE exitCode
    /\ UNCHANGED <<startVars, ui, options, context, requests>>

\* 404 on a model other than the fallback: warn and call queryGemini again
RespondFallback(i, R) ==
    /\ proc = "running" /\ Awaiting(i)
    /\ \E resp \in R :
         /\ ~ResOk(resp)
         /\ shouldFallback(variant, resp.status, hs[i].cur)
         /\ LET cur == currentModel(variant, STABLE_FALLBACK_MODEL)
            IN /\ hs' = [hs EXCEPT ![i].cur = cur, ![i].nreq = @ + 1,
                                     ![i].received = Append(@, resp)]
               /\ console' = console \o fallbackOutput(i, model)
               /\ requests' = Append(requests, Req(i, cur, hs[i].prompt))
    /\ UNCHANGED <<startVars, ui, options, context, proc, exitCode, logFile>>

\* any other non-success status: throw, caught by the handler
RespondError(i, R) ==
    /\ proc = "running" /\ Awaiting(i)
    /\ \E resp \in R :
         /\ ~ResOk(resp)
         /\ ~shouldFallback(variant, resp.status, hs[i].cur)
         /\ Caught(i, Append(hs[i].received, resp), RemoteErrorMessage(resp))

\* success status and a body JSON.parse accepts
RespondOk(i, R) ==
    /\ proc = "running" /\ Awaiting(i)
    /\ \E resp \in R :
         /\ ResOk(resp)
         /\ ~JSONparse(resp.body).threw
         /\ LET answer == TextOrPlaceholder(variant, OptionalText(JSONparse(resp.body).data))
            IN /\ hs' = [hs EXCEPT ![i].pc = "answered", ![i].received = Append(@, resp),
                                     ![i].result = answer]
               /\ console' = console \o answerOutput(i, answer)
               /\ logFile' = logFile \o answerLog(i, hs[i].text, answer)
               /\ context' = contextAfterAnswer(context, hs[i].text, answer)
    /\ proc' = IF mode = "single" THEN "exited" ELSE proc
    /\ exitCode' = IF mode = "single" THEN 0 ELSE exitCode
    /\ UNCHANGED <<startVars, ui, options, requests>>

\* success status and a body JSON.parse rejects
RespondUnparseable(i, R) ==
    /\ proc = "running" /\ Awaiting(i)
    /\ \E resp \in R :
         /\ ResOk(resp)
         /\ JSONparse(resp.body).threw
         /\ Caught(i, Append(hs[i].received, resp), ParseFailureMessage(variant))

\* fetch rejects (no response at all)
NetworkFailure(i) ==
    /\ proc = "running" /\ Awaiting(i)
    /\ Caught(i, hs[i].received, NETWORK_FAILURE_MESSAGE)

NextWith(R, L) ==
    \/ EmptyLine(L)
    \/ ExitLine(L)
    \/ ClearLine(L)
    \/ UserLine(L)
    \/ EndOfInput
    \/ \E i \in 1..maxLines : RespondFallback(i, R)
    \/ \E i \in 1..maxLines : RespondError(i, R)
    \/ \E i \in 1..maxLines : RespondOk(i, R)
    \/ \E i \in 1..maxLines : RespondUnparseable(i, R)
    \/ \E i \in 1..maxLines : NetworkFailure(i)

\* a chat session
Next == NextWith(ChatResponses, Lines)
Spec == Init /\ [][Next]_vars

\* the dispatcher on its own: a short session, every model name, style and response
InitDispatch == InitWith(ModelNames, ChatStyles, DispatchLines)
NextDispatch == NextWith(Responses, Lines)
SpecDispatch == InitDispatch /\ [][NextDispatch]_vars

\* the personas: every kind of --style value against every kind of personas file
PersonaStyles == {"default", "hacker", "teacher", "pirate", "nosuch", "constructor"}
PersonaFiles ==
    {NoFile, File(PERSONAS_MALFORMED), File(PERSONAS_PIRATE), File(PERSONAS_HACKER),
     File(PERSONAS_DEFAULT), File(PERSONAS_BLANK)}
InitPersona == Started(ChatModels, PersonaStyles, PersonaFiles, DispatchLines)
SpecPersona == InitPersona /\ [][Next]_vars

(***************************************************************************)
(* A CLI process from its start: getAPIKey, then the mode                  *)
(***************************************************************************)
Modes == {"chat", "single"}

\* values of --model for a process followed from its start
RunModels == {"gemini-pro"}

\* lines the user can enter, the command of the README included
RunLines == Lines \cup {":save"}

InitRun ==
    /\ variant \in Variants
    /\ model \in RunModels
    /\ style \in ChatStyles
    /\ long \in BOOLEAN
    /\ maxLines = DispatchLines
    /\ mode \in Modes
    /\ env \in Envs
    /\ configFile \in ConfigFiles
    /\ personasFile = NoFile
    /\ apiKey = Key("unset", "")
    /\ runs = << >>
    /\ ui = UIOff
    /\ context = ""
    /\ proc = "starting"
    /\ exitCode = -1
    /\ hs = << >>
    /\ requests = << >>
    /\ console = << >>
    /\ logFile = << >>

\* the key is returned: control is back in singleShot or chatMode
Resolved(source, key, entered, saved) ==
    /\ apiKey' = Key(source, key)
    /\ runs' = Append(runs, KeyRun(env, configFile, source, key, entered, saved))
    /\ proc' = "keyed"
    /\ UNCHANGED <<options, mode, env, personasFile, ui, context, exitCode, hs, requests, logFile>>

\* getAPIKey throws: the catch of the CLI action prints the message and
\* calls process.exit(1)
Thrown(source, key, entered, message) ==
    /\ apiKey' = Key(source, key)
    /\ runs' = Append(runs, KeyRun(env, configFile, source, key, entered, FALSE))
    /\ console' = Append(console, Out("stderr", 0, "Error: " \o message))
    /\ proc' = "exited"
    /\ exitCode' = 1
    /\ UNCHANGED <<options, mode, env, configFile, personasFile, ui, context, hs, requests, logFile>>

\* step 1: the environment variable
KeyFromEnv ==
    /\ proc = "starting"
    /\ envUsable(env)
    /\ Resolved("env", trim(env), "", FALSE)
    /\ UNCHANGED <<configFile, console>>

\* step 2: the saved config file
KeyFromFile ==
    /\ proc = "starting"
    /\ ~envUsable(env)
    /\ fileUsable(configFile)
    /\ Resolved("file", trim(configFile.data), "", FALSE)
    /\ UNCHANGED <<configFile, console>>

\* step 3: the user enters a key and writeFileSync succeeds
KeyFromPrompt ==
    /\ proc = "starting"
    /\ ~envUsable(env)
    /\ ~fileUsable(configFile)
    /\ \E answer \in Entries :
         /\ ~enteredMissing(promptHidden(answer))
         /\ Resolved("prompt", promptHidden(answer), answer, TRUE)
         /\ configFile' = File(promptHidden(answer))
         /\ console' = Append(console, Out("stdout", 0, "API key saved to ~/.askit_config"))

\* step 3, writeFileSync throws inside the try block of src/ui.js
KeyNotSaved ==
    /\ proc = "starting"
    /\ variant = "askit"
    /\ ~envUsable(env)
    /\ ~fileUsable(configFile)
    /\ \E answer \in Entries :
         /\ ~enteredMissing(promptHidden(answer))
         /\ Resolved("prompt", promptHidden(answer), answer, FALSE)
         /\ console' = Append(console, Out("stdout", 0,
                            "Could not save key; will use it for this session only."))
    /\ UNCHANGED configFile

\* step 3, writeFileSync throws in src/ui.jsx, where no try block surrounds it
KeySaveThrows ==
    /\ proc = "starting"
    /\ variant = "termigpt"
    /\ ~envUsable(env)
    /\ ~fileUsable(configFile)
    /\ \E answer \in Entries :
         /\ ~enteredMissing(promptHidden(answer))
         /\ Thrown("prompt", promptHidden(answer), answer, WRITE_FAILURE_MESSAGE)

\* step 3, nothing was entered
KeyMissing ==
    /\ proc = "starting"
    /\ ~envUsable(env)
    /\ ~fileUsable(configFile)
    /\ \E answer \in Entries :
         /\ enteredMissing(promptHidden(answer))
         /\ Thrown("none", "", answer, NO_KEY_MESSAGE)

\* chatMode after getAPIKey: personalities, context, first prompt
StartChat ==
    /\ proc = "keyed"
    /\ mode = "chat"
    /\ context' = buildSystemPrompt(style, loadPersonalities)
    /\ console' = Append(console, rlPrompt(0))
    /\ proc' = "running"
    /\ UNCHANGED <<startVars, ui, options, exitCode, hs, requests, logFile>>

\* the prompt of singleShot
singlePrompt(systemPrompt, question, lng) ==
    systemPrompt \o "\n\nUser: " \o question \o (IF lng THEN LONG_SUFFIX ELSE "")

\* singleShot after getAPIKey: prompt, queryGemini, which sends its first request
StartSingleShot ==
    /\ proc = "keyed"
    /\ mode = "single"
    /\ \E question \in Questions :
         LET p   == singlePrompt(buildSystemPrompt(style, loadPersonalities), question, long)
             cur == currentModel(variant, model)
         IN /\ hs' = << Handler(question, "await", p, cur, 1, {}) >>
            /\ requests' = Append(requests, Req(1, cur, p))
            /\ console' = Append(console, Out("stdout", 0, "> " \o question \o "\n"))
    /\ proc' = "running"
    /\ UNCHANGED <<startVars, ui, options, context, exitCode, logFile>>

NextRun ==
    \/ KeyFromEnv
    \/ KeyFromFile
    \/ KeyFromPrompt
    \/ KeyNotSaved
    \/ KeySaveThrows
    \/ KeyMissing
    \/ StartChat
    \/ StartSingleShot
    \/ NextWith(ChatResponses, RunLines)

SpecRun == InitRun /\ [][NextRun]_vars

(***************************************************************************)
(* getAPIKey over successive processes sharing the home directory          *)
(***************************************************************************)
\* the process has ended and another one is started
NewProcess ==
    /\ proc \in {"keyed", "exited"}
    /\ Len(runs) < MaxRuns
    /\ env' \in Envs
    /\ apiKey' = Key("unset", "")
    /\ proc' = "starting"
    /\ exitCode' = -1
    /\ console' = << >>
    /\ UNCHANGED <<options, mode, configFile, personasFile, runs, ui, context, hs,
                   requests, logFile>>

NextCred ==
    \/ KeyFromEnv
    \/ KeyFromFile
    \/ KeyFromPrompt
    \/ KeyNotSaved
    \/ KeySaveThrows
    \/ KeyMissing
    \/ NewProcess

SpecCred == InitRun /\ [][NextCred]_vars

(***************************************************************************)
(* The full-screen front-end (src/ui.js, lines 1-92)                       *)
(*   ui.state        "mounted", "unmounted" (after exit()), "exited"       *)
(*   ui.messages     the React state `messages`                            *)
(*   ui.pending      calls of queryGemini not yet settled                  *)
(*   ui.captured     the `messages` the registered handleExit sees         *)
(*   ui.exitListener handleExit is registered for the process "exit" event *)
(*   ui.clock        Date.now()                                            *)
(*   ui.files        the files of the log directory                        *)
(***************************************************************************)
\* what the user has typed when pressing return
UIInputs == {"  ", "hi "}

Message(role, text) == [role |-> role, text |-> text]

\* messages.map(m => `${m.role}: ${m.text}`).join("\n\n")
RECURSIVE mapJoin(_)
mapJoin(ms) ==
    IF Len(ms) = 0 THEN ""
    ELSE IF Len(ms) = 1 THEN ms[1].role \o ": " \o ms[1].text
    ELSE ms[1].role \o ": " \o ms[1].text \o "\n\n" \o mapJoin(Tail(ms))

\* `ui_chat_${Date.now()}.txt`
logFileName(now) == "ui_chat_" \o ToString(now) \o ".txt"

\* fs.writeFileSync(file, data): creates the file or replaces its content
writeFileSync(files, name, data) ==
    {f \in files : f.name # name} \cup {[name |-> name, data |-> data]}

\* saveLog as handleExit calls it: the closure of the render in which the
\* effect ran
saveLog(u) == writeFileSync(u.files, logFileName(u.clock), mapJoin(u.captured))

\* useEffect(..., []): the effect runs after the first render only, so a later
\* render leaves the registered handleExit, and the saveLog and messages it
\* closes over, as they were
closureAfterRender(captured, messages) == captured

\* the React state after setMessages(m => [...m, msg]) and the re-render
withMessage(u, msg) ==
    [u EXCEPT !.messages = Append(@, msg),
              !.captured = closureAfterRender(@, Append(u.messages, msg))]

Submitted(u) == Cardinality({k \in 1..Len(u.messages) : u.messages[k].role = "user"})

\* after render(<ChatUI />): first render done, effect run, nothing typed
InitUI ==
    /\ ui = [state |-> "mounted", messages |-> << >>, loading |-> FALSE, pending |-> 0,
             captured |-> << >>, exitListener |-> TRUE, clock |-> 0, files |-> {}]
    /\ variant = "ui"
    /\ model = "gemini-2.0-flash"
    /\ style = "default"
    /\ long = FALSE
    /\ maxLines = 0
    /\ mode = "ui"
    /\ env = ENV_KEY
    /\ configFile = NoFile
    /\ personasFile = NoFile
    /\ apiKey = Key("env", ENV_KEY)
    /\ runs = << >>
    /\ context = ""
    /\ proc = "off"
    /\ exitCode = -1
    /\ hs = << >>
    /\ requests = << >>
    /\ console = << >>
    /\ logFile = << >>

cliVars == <<options, context, proc, exitCode, hs, requests, console, logFile, startVars>>

\* handleSubmit up to its await
UISubmit ==
    /\ ui.state = "mounted"
    /\ Submitted(ui) < MaxSubmits
    /\ \E input \in UIInputs :
         /\ trim(input) # ""
         /\ ui' = [withMessage(ui, Message("user", input)) EXCEPT
                      !.loading = TRUE, !.pending = @ + 1]
    /\ UNCHANGED cliVars

\* queryGemini returns: res.json() parsed the body, whatever the status
UIReply ==
    /\ ui.state = "mounted"
    /\ ui.pending > 0
    /\ \E resp \in Responses :
         /\ ~JSONparse(resp.body).threw
         /\ LET reply == TextOrPlaceholder("ui", OptionalText(JSONparse(resp.body).data))
            IN ui' = [withMessage(ui, Message("assistant", reply)) EXCEPT
                        !.loading = FALSE, !.pending = @ - 1]
    /\ UNCHANGED cliVars

\* queryGemini throws (fetch rejects or res.json() rejects the body):
\* handleSubmit has no try/catch and ends there; the runtime only reports the
\* unhandled rejection
UIReplyThrows ==
    /\ ui.state = "mounted"
    /\ ui.pending > 0
    /\ ui' = [ui EXCEPT !.pending = @ - 1]
    /\ UNCHANGED cliVars

\* queryGemini throws and the runtime ends the process on the unhandled
\* rejection of handleSubmit: the process "exit" event runs handleExit
UICrash ==
    /\ ui.state = "mounted"
    /\ ui.pending > 0
    /\ ui' = [ui EXCEPT !.pending = @ - 1,
                         !.files = IF ui.exitListener THEN saveLog(ui) ELSE @,
                         !.state = "exited"]
    /\ UNCHANGED cliVars

\* a millisecond passes
UITick ==
    /\ ui.state \in {"mounted", "unmounted"}
    /\ ui.clock < MaxClock
    /\ ui' = [ui EXCEPT !.clock = @ + 1]
    /\ UNCHANGED cliVars

\* SIGINT is delivered: handleExit = saveLog(); exit()
UISigint ==
    /\ ui.state = "mounted"
    /\ ui' = [ui EXCEPT !.files = saveLog(ui), !.state = "unmounted"]
    /\ UNCHANGED cliVars

\* the application ends without a signal: Ink unmounts it
UIQuit ==
    /\ ui.state = "mounted"
    /\ ui' = [ui EXCEPT !.state = "unmounted"]
    /\ UNCHANGED cliVars

\* the cleanup of the effect: process.off("exit", handleExit)
UICleanup ==
    /\ ui.state = "unmounted"
    /\ ui.exitListener
    /\ ui' = [ui EXCEPT !.exitListener = FALSE]
    /\ UNCHANGED cliVars

\* the process "exit" event: handleExit runs if it is still registered
UIProcessExit ==
    /\ ui.state = "unmounted"
    /\ ui' = [ui EXCEPT !.files = IF ui.exitListener THEN saveLog(ui) ELSE @,
                         !.state = "exited"]
    /\ UNCHANGED cliVars

NextUI ==
    \/ UISubmit
    \/ UIReply
    \/ UIReplyThrows
    \/ UICrash
    \/ UITick
    \/ UISigint
    \/ UIQuit
    \/ UICleanup
    \/ UIProcessExit

SpecUI == InitUI /\ [][NextUI]_vars

(***************************************************************************)
(* Properties                                                              *)
(***************************************************************************)
Turns == 1..Len(hs)

\* the handler of turn i called queryGemini
Dispatched(i) == hs[i].pc # "returned"

\* the requests of turn i, in the order sent
RequestsOf(i) == SelectSeq(requests, LAMBDA r : r.turn = i)

NoClearBetween(i, j) == \A k \in (i + 1)..(j - 1) : hs[k].text # ":clear"

\* sub1 occurs in s and sub2 occurs at a later position
OccurInOrder(s, sub1, sub2) ==
    \E p1 \in 1..Len(s) :
        /\ OccursAt(s, sub1, p1)
        /\ \E p2 \in (p1 + 1)..Len(s) : OccursAt(s, sub2, p2)

\* C1: user turns accumulate in the context: the prompt of every request of a
\* turn holds "User: <t1>" of every earlier dispatched turn since the last
\* :clear, followed later by its own "User: <t2>".
C1_UserTurnsAccumulate ==
    \A n \in 1..Len(requests) :
        \A i \in 1..(requests[n].turn - 1) :
            (Dispatched(i) /\ NoClearBetween(i, requests[n].turn))
                => OccurInOrder(requests[n].prompt,
                                "User: " \o hs[i].text,
                                "User: " \o hs[requests[n].turn].text)

InFlight == {i \in Turns : hs[i].pc = "await"}

\* C2: at most one dispatch is in flight at any time.
C2_AtMostOneInFlight == Cardinality(InFlight) <= 1

\* C10: no cancellation: when the process has exited, no issued request is left
\* without its outcome delivered.
C10_NoRequestAbandoned == proc = "exited" => InFlight = {}

(***************************************************************************)
(* The dispatcher                                                          *)
(***************************************************************************)
IsRemoteError(message, status) ==
    OccursAt(message, "Gemini API error: " \o ToString(status), 1)

\* C3: when the first request of a dispatch is answered 404 and its model is
\* not the stable fallback model, exactly one further request is sent, to the
\* stable fallback model; when that retry is answered with a reply, the
\* dispatch returns the retry's reply text.
C3_NotFoundFallsBackOnce ==
    \A i \in Turns :
        ( /\ variant = "askit"
          /\ Len(hs[i].received) >= 1
          /\ hs[i].received[1].status = 404
          /\ RequestsOf(i)[1].mdl # STABLE_FALLBACK_MODEL )
        => /\ Len(RequestsOf(i)) = 2
           /\ RequestsOf(i)[2].mdl = STABLE_FALLBACK_MODEL
           /\ ( /\ Len(hs[i].received) = 2
                /\ hs[i].received[2].status = 200
                /\ hs[i].received[2].body = BODY_HI )
              => (hs[i].pc = "answered" /\ hs[i].result = REPLY_HI)

C3_Witness ==
    \E i \in Turns :
        /\ variant = "askit"
        /\ Len(hs[i].received) = 2
        /\ hs[i].received[1].status = 404
        /\ hs[i].received[2].body = BODY_HI
        /\ RequestsOf(i)[1].mdl # STABLE_FALLBACK_MODEL
        /\ hs[i].result = REPLY_HI

\* C4: a 404 answered for the stable fallback model ends the dispatch with a
\* RemoteError and no further request, whether that model was requested
\* directly or reached through the fallback; a dispatch sends at most two
\* requests.
C4_NotFoundOnFallbackIsTerminal ==
    \A i \in Turns :
        /\ Len(RequestsOf(i)) <= 2
        /\ \A k \in 1..Len(hs[i].received) :
              (hs[i].received[k].status = 404 /\ RequestsOf(i)[k].mdl = STABLE_FALLBACK_MODEL)
              => /\ k = Len(hs[i].received)
                 /\ Len(RequestsOf(i)) = k
                 /\ hs[i].pc = "failed"
                 /\ IsRemoteError(hs[i].result, 404)

C4_Witness ==
    \E i \in Turns :
        /\ variant = "askit"
        /\ Len(hs[i].received) = 2
        /\ hs[i].received[1].status = 404
        /\ hs[i].received[2].status = 404
        /\ RequestsOf(i)[2].mdl = STABLE_FALLBACK_MODEL
        /\ hs[i].pc = "failed"

\* C5: the first request of a dispatch names "gemini-2.5-pro" exactly when the
\* lower-cased requested name differs from the stable fallback model, contains
\* "pro" and does not contain "2.5"; otherwise it names the requested model
\* unchanged.
C5_FirstRequestModel ==
    \A i \in Turns :
        (variant = "askit" /\ Dispatched(i))
        => LET lower == toLowerCase(model)
           IN RequestsOf(i)[1].mdl =
                IF lower # "gemini-2.5-flash" /\ includes(lower, "pro") /\ ~includes(lower, "2.5")
                THEN "gemini-2.5-pro"
                ELSE model

C5_Witness ==
    \E i \in Turns :
        /\ variant = "askit"
        /\ model = "Gemini-PRO"
        /\ Dispatched(i)
        /\ RequestsOf(i)[1].mdl = "gemini-2.5-pro"

StderrOf(i) == SelectSeq(console, LAMBDA o : o.kind = "stderr" /\ o.turn = i)

\* C6: a non-success status other than 404, on any request of a dispatch, ends
\* the dispatch with a RemoteError carrying the status and the body; no further
\* request is sent and the failure is reported once.
C6_OtherErrorsAreNotRetried ==
    \A i \in Turns :
        \A k \in 1..Len(hs[i].received) :
            (~ResOk(hs[i].received[k]) /\ hs[i].received[k].status # 404)
            => /\ k = Len(hs[i].received)
               /\ Len(RequestsOf(i)) = k
               /\ hs[i].pc = "failed"
               /\ IsRemoteError(hs[i].result, hs[i].received[k].status)
               /\ includes(hs[i].result, hs[i].received[k].body)
               /\ Len(StderrOf(i)) = 1
               /\ includes(StderrOf(i)[1].text, hs[i].result)

C6_Witness ==
    \E i \in Turns :
        /\ Len(hs[i].received) = 2
        /\ hs[i].received[2].status = 500
        /\ hs[i].pc = "failed"
        /\ Len(StderrOf(i)) = 1

(***************************************************************************)
(* The chat loop                                                           *)
(***************************************************************************)
\* C7: when a dispatch fails in a chat turn, the error is reported, the context
\* and the log are left as they were, the process keeps running and the prompt
\* is shown again, so that a later line is accepted.
C7_FailureLeavesSessionIntact ==
    [][ \A i \in Turns :
          (hs[i].pc = "await" /\ hs'[i].pc = "failed")
          => /\ context' = context
             /\ logFile' = logFile
             /\ proc' = "running"
             /\ exitCode' = exitCode
             /\ requests' = requests
             /\ Len(console') = Len(console) + 2
             /\ console'[Len(console) + 1] = Out("stderr", i, "Error: " \o hs'[i].result)
             /\ console'[Len(console) + 2] = rlPrompt(i) ]_vars

C7_Witness ==
    \E i \in Turns :
        /\ hs[i].pc = "failed"
        /\ \E j \in Turns : i \in hs[j].after /\ hs[j].pc = "answered"

\* C8: after a :clear, whatever turns came before it, the context is equal to
\* the context at session start for the same persona, and the command sends no
\* request.
C8_ClearRestoresStartContext ==
    \A i \in Turns :
        hs[i].text = ":clear"
        => /\ RequestsOf(i) = << >>
           /\ i = Len(hs) => context = buildSystemPrompt(style, loadPersonalities)

C8_Witness ==
    /\ Len(hs) = 2
    /\ hs[2].text = ":clear"
    /\ hs[1].pc = "answered"
    /\ 1 \in hs[2].after

\* C9: the reply text is never part of the context: whenever a request is
\* sent, its prompt contains no reply returned so far for an earlier turn.
C9_ReplyNeverInPrompt ==
    [][ Len(requests') > Len(requests)
        => LET r == requests'[Len(requests')]
           IN \A i \in 1..(r.turn - 1) :
                 hs[i].pc = "answered" => ~includes(r.prompt, hs[i].result) ]_vars

C9_Witness ==
    \E j \in Turns :
        /\ Dispatched(j)
        /\ \E i \in hs[j].after : hs[i].pc = "answered" /\ hs[i].result = REPLY_HI

\* the line handler has just been invoked with the (trimmed) text t
LineArrives(t) == Len(hs') = Len(hs) + 1 /\ hs'[Len(hs')].text = t

\* C11: the line ":exit" closes the session and the process exits with status
\* 0; an empty line changes neither context, requests, log nor the process
\* state; once the session is closed no line is read and no request is sent.
C11_ExitClosesSession ==
    [][ /\ LineArrives(":exit") => (proc' = "exited" /\ exitCode' = 0 /\ requests' = requests)
        /\ LineArrives("") => UNCHANGED <<context, requests, logFile, proc, exitCode>>
        /\ proc = "exited" => UNCHANGED <<hs, requests, proc, exitCode>> ]_vars

C11_Witness ==
    /\ Len(hs) = 2
    /\ hs[1].text = ""
    /\ hs[2].text = ":exit"
    /\ proc = "exited"
    /\ exitCode = 0

(***************************************************************************)
(* The dispatcher: reading the success body                                *)
(***************************************************************************)
\* the response that ended the dispatch of turn i
LastReceived(i) == hs[i].received[Len(hs[i].received)]

Settled(i) == hs[i].pc \in {"answered", "failed"} /\ Len(hs[i].received) >= 1

LinkMissingBodies ==
    {BODY_BLOCKED, BODY_NO_TEXT, BODY_NO_CONTENT, BODY_NO_PARTS, BODY_EMPTY_PARTS,
     BODY_PART_NO_TEXT}

\* C14: a success response whose body is well-formed but lacks a link of the
\* path candidates[0].content.parts[0].text makes the dispatch return the
\* placeholder string of the variant; the dispatch does not fail.
C14_MissingLinkGivesPlaceholder ==
    \A i \in Turns :
        (Settled(i) /\ ResOk(LastReceived(i)) /\ LastReceived(i).body \in LinkMissingBodies)
        => /\ hs[i].pc = "answered"
           /\ hs[i].result =
                IF variant = "askit"
                THEN "(No text response from Gemini. The API may have returned a blocked or empty response.)"
                ELSE "(no response)"

C14_Witness ==
    \E i \in Turns :
        /\ Settled(i)
        /\ LastReceived(i).body = BODY_NO_PARTS
        /\ hs[i].pc = "answered"

\* C15: a success response whose body is not well-formed makes the dispatch
\* (of src/ui.js) throw a failure whose message reports the unparseable
\* response; no reply text or placeholder is returned.
C15_MalformedBodyIsParseError ==
    \A i \in Turns :
        ( /\ variant = "askit"
          /\ Settled(i)
          /\ ResOk(LastReceived(i))
          /\ LastReceived(i).body = BODY_MALFORMED )
        => /\ hs[i].pc = "failed"
           /\ includes(hs[i].result, "Failed to parse Gemini response: " \o BODY_MALFORMED)

(***************************************************************************)
(* Process start, single-shot mode, the key                                *)
(***************************************************************************)
StdoutTexts == {console[n].text : n \in {m \in 1..Len(console) : console[m].kind = "stdout"}}
StderrTexts == {console[n].text : n \in {m \in 1..Len(console) : console[m].kind = "stderr"}}

\* no source gave a key to the call of getAPIKey recorded in r
NothingResolvable(r) ==
    /\ trim(r.env) = ""
    /\ ~(r.file.exists /\ trim(r.file.data) # "")
    /\ trim(r.entered) = ""

C17_SingleShotOutcome ==
    mode = "single"
    => /\ Len(hs) <= 1
       /\ \A i \in Turns :
             /\ hs[i].pc = "failed"
                => /\ proc = "exited"
                   /\ exitCode = 1
                   /\ logFile = << >>
                   /\ "Error: " \o hs[i].result \in StderrTexts
             /\ hs[i].pc = "answered"
                => /\ proc = "exited"
                   /\ exitCode = 0
                   /\ logFile = << logLine(i, "Q: " \o hs[i].text),
                                   logLine(i, "A: " \o hs[i].result) >>
                   /\ hs[i].result \o "\n" \in StdoutTexts
                   /\ StderrTexts = {}

C17_Witness ==
    /\ mode = "single"
    /\ Len(hs) = 1
    /\ hs[1].pc = "failed"
    /\ Len(hs[1].received) = 2
    /\ hs[1].received[2].status = 500
    /\ proc = "exited"

\* C18: the key comes from the environment variable whenever that is set and
\* not blank, else from the config file when it holds a non-blank text, else
\* from the prompt; and a key entered and saved by one process is the key a
\* later process without the environment variable reads from the config
\* file, without prompting.
C18_KeyPrecedenceAndRoundTrip ==
    /\ \A k \in 1..Len(runs) :
          LET r == runs[k]
              fileGood == r.file.exists /\ trim(r.file.data) # ""
          IN /\ trim(r.env) # "" => (r.source = "env" /\ r.key = trim(r.env))
             /\ (trim(r.env) = "" /\ fileGood)
                => (r.source = "file" /\ r.key = trim(r.file.data))
             /\ (trim(r.env) = "" /\ ~fileGood) => r.source \in {"prompt", "none"}
    /\ \A j \in 1..Len(runs) : \A k \in (j + 1)..Len(runs) :
          (runs[j].source = "prompt" /\ runs[j].saved /\ trim(runs[k].env) = "")
          => /\ runs[k].source = "file"
             /\ runs[k].key = runs[j].key
             /\ runs[k].entered = ""

C18_Witness ==
    /\ Len(runs) = 2
    /\ runs[1].source = "prompt"
    /\ runs[1].saved
    /\ runs[1].entered = " typed-key "
    /\ runs[2].env = "  "
    /\ runs[2].source = "file"
    /\ runs[2].key = "typed-key"

\* C20: in chat mode the line ":save" is handled as a command: it saves the
\* transcript and is not sent to the remote API as a user message.
C20_SaveIsACommand ==
    \A i \in Turns : hs[i].text = ":save" => ~Dispatched(i)

(***************************************************************************)
(* Personas                                                                *)
(***************************************************************************)
\* the persona text the merged mapping assigns to the style: the text of the
\* personas file where the file has the key, else the built-in text, and the
\* text of "default" where the style is no key at all
MergedPersona ==
    LET extra  == extraPersonalities(personasFile)
        merged == loadPersonalities
    IN IF style \in DOMAIN extra THEN extra[style]
       ELSE IF style \in DOMAIN DEFAULT_PERSONALITIES THEN DEFAULT_PERSONALITIES[style]
       ELSE merged["default"]

\* C19: every prompt sent starts with the persona text of the style: the
\* "default" persona's text when the style is not a key of the merged
\* mapping, the personas file's text when the file has the key, the built-in
\* text otherwise.
C19_PersonaLookup ==
    \A n \in 1..Len(requests) :
        OccursAt(requests[n].prompt, MergedPersona \o "\nAdditional rules:", 1)

(***************************************************************************)
(* The full-screen front-end                                               *)
(***************************************************************************)
\* C12: every transcript file written at shutdown holds the whole message
\* list as it stands at shutdown: each user message and each assistant reply
\* of the session, in order.
C12_TranscriptHoldsAllMessages ==
    ui.state \in {"unmounted", "exited"}
    => \A f \in ui.files : f.data = mapJoin(ui.messages)

\* C13: whatever the shutdown path (interrupt, normal exit, interrupt followed
\* by the process exit event), exactly one transcript file exists once the
\* process has exited; a second save adds no further file.
C13_ExactlyOneTranscript ==
    ui.state = "exited" => Cardinality(ui.files) = 1

(***************************************************************************)
(* The TermiGPT dispatcher                                                 *)
(***************************************************************************)
\* C21: in the TermiGPT CLI a dispatch whose request is answered 404 for the
\* requested model sends a further request, to a fallback model, instead of
\* ending the turn with the failure.
C21_TermiGPTFallsBackOn404 ==
    \A i \in Turns :
        ( /\ variant = "termigpt"
          /\ Len(hs[i].received) >= 1
          /\ hs[i].received[1].status = 404 )
        => /\ Len(RequestsOf(i)) >= 2
           /\ RequestsOf(i)[2].mdl # RequestsOf(i)[1].mdl

(***************************************************************************)
(* The log and the order of outcomes in a chat session                     *)
(***************************************************************************)
Answered == {i \in Turns : hs[i].pc = "answered"}

LogEntriesOf(i) == {k \in 1..Len(logFile) : logFile[k].turn = i}

\* C22: the log of a chat process consists of adjacent pairs "Q: <line>",
\* "A: <reply>" of one turn, one pair for every answered dispatch and nothing
\* for empty lines, :clear, :exit, pending and failed dispatches, whatever the
\* interleaving of the turns.
C22_LogHoldsAdjacentPairs ==
    /\ Len(logFile) = 2 * Cardinality(Answered)
    /\ \A i \in Turns : Cardinality(LogEntriesOf(i)) = IF i \in Answered THEN 2 ELSE 0
    /\ \A k \in 1..Len(logFile) :
          k % 2 = 1
          => LET t == logFile[k].turn
             IN /\ t \in Answered
                /\ k + 1 <= Len(logFile)
                /\ logFile[k].text = "Q: " \o hs[t].text
                /\ logFile[k + 1].turn = t
                /\ logFile[k + 1].text = "A: " \o hs[t].result

C22_Witness ==
    /\ Len(hs) = 2
    /\ Answered = {1, 2}
    /\ 1 \notin hs[2].after
    /\ Len(logFile) = 4
    /\ logFile[1].turn = 2
    /\ logFile[3].turn = 1

\* the console entry that reports the outcome of turn i: the answer line or
\* the error line
IsOutcome(o, i) ==
    /\ o.turn = i
    /\ \/ o.kind = "stderr"
       \/ o.kind = "stdout" /\ OccursAt(o.text, "ai > ", 1)

OutcomePositions(i) == {n \in 1..Len(console) : IsOutcome(console[n], i)}

\* C24: outcomes are delivered in input order: when the outcome of a
\* dispatched line has been printed, the outcome of every dispatched line
\* entered before it has been printed earlier, and likewise in the log.
C24_OutcomesInInputOrder ==
    \A i \in Turns : \A j \in Turns :
        (i < j /\ Dispatched(i) /\ Dispatched(j) /\ OutcomePositions(j) # {})
        => /\ \E n \in OutcomePositions(i) : \A m \in OutcomePositions(j) : n < m
           /\ \A k \in LogEntriesOf(i) : \A l \in LogEntriesOf(j) : k < l

(***************************************************************************)
(* The full-screen front-end: the loading indicator                        *)
(***************************************************************************)
MessagesOf(role) == {k \in 1..Len(ui.messages) : ui.messages[k].role = role}

\* C23: once every request of the full-screen front-end has had its outcome
\* (reply, error status, unparseable body or network failure), the loading
\* indicator is cleared and every user message has been followed by an
\* assistant message.
C23_LoadingIsCleared ==
    ui.pending = 0
    => /\ ~ui.loading
       /\ Cardinality(MessagesOf("assistant")) = Cardinality(MessagesOf("user"))
       /\ \A k \in MessagesOf("user") : \E a \in MessagesOf("assistant") : a > k

====
